---- MODULE Spec2Model ----
EXTENDS Integers, Sequences, FiniteSets, TLC

(***************************************************************************)
(* SSH-Radar: the lastb line parser (src/src/parser.py) and the ingest     *)
(* writer (src/src/ingest.py).                                             *)
(*                                                                         *)
(* A line of text is modelled by its whitespace-delimited tokens and the   *)
(* whitespace facts the regular expressions of parser.py depend on:        *)
(*   lead   the line starts with whitespace                                *)
(*   wide1  two or more whitespace characters separate token 1 and 2       *)
(*          (FALSE: exactly one space)                                     *)
(*   wide2  likewise between token 2 and token 3                           *)
(*   nl     the line ends with a newline character                         *)
(* Tokens are strings out of a fixed vocabulary; what the code reads off   *)
(* a token's characters is given by the tables below.  A piece of text     *)
(* cut out of a line (the source field, the timestamp) is the sequence of  *)
(* its tokens; the empty sequence is the empty string.                     *)
(***************************************************************************)

------------------------------------------------------------------------------
(* Bounds of the model *)

\* most tokens in front of the first timestamp of a generated line
MaxHead == 3

------------------------------------------------------------------------------
(* Character-level facts about the tokens of the vocabulary *)

\* tokens that are exactly [A-Z][a-z]{2}
UllWords == {"Fri", "Sat", "Feb", "Xyz", "Bob"}

\* the last three characters of a token when they are [A-Z][a-z]{2}, else ""
UllSuffix(t) ==
    IF t \in UllWords THEN t
    ELSE IF t = "xFri" THEN "Fri"
    ELSE IF t = "rebOot" THEN "Oot"
    ELSE ""

\* what precedes those three characters
UllHead(t) ==
    IF t = "xFri" THEN "x"
    ELSE IF t = "rebOot" THEN "reb"
    ELSE ""

\* tokens that are exactly \d{1,2}
DayToks == {"14", "15", "30"}

\* tokens that are exactly \d{2}:\d{2}:\d{2}
TimeToks == {"03:22:15", "25:00:00"}

\* tokens that are exactly \d{4}
YearToks == {"2026"}

\* the first four characters of a token when they are \d{4}, else ""
YearPrefix(t) ==
    IF t \in YearToks THEN t
    ELSE IF t = "2026x" THEN "2026"
    ELSE ""

\* str.lower()
Lower(t) ==
    CASE t = "Reboot" -> "reboot"
      [] t = "rebOot" -> "reboot"
      [] t = "SHUTDOWN" -> "shutdown"
      [] t = "BTMP" -> "btmp"
      [] t = "TTY1" -> "tty1"
      [] t = "SSH:notty" -> "ssh:notty"
      [] t = "Fri" -> "fri"
      [] t = "Sat" -> "sat"
      [] t = "Feb" -> "feb"
      [] t = "Xyz" -> "xyz"
      [] t = "Bob" -> "bob"
      [] t = "xFri" -> "xfri"
      [] OTHER -> t

\* the token starts with "("; the token ends with ")" behind a "("
StartsParen(t) == t \in {"(00:00)", "(x", "(d)"}
EndsParen(t) == t \in {"(00:00)", "(d)"}

\* abbreviated weekday and month names of the C locale (%a, %b)
Weekdays == {"Fri", "Sat"}
Months == {"Feb"}

\* int() of a day token; days of February 2026
DayNum(t) == CASE t = "14" -> 14 [] t = "15" -> 15 [] t = "30" -> 30 [] OTHER -> 0
DaysInMonth(mon, year) == IF mon = "Feb" /\ year = "2026" THEN 28 ELSE 0

\* HH:MM:SS within 00:00:00 .. 23:59:59
ValidTime(t) == t = "03:22:15"

\* "ssh" in t, t.startswith("tty"), t.startswith("pts"), for a lower-cased token
ContainsSsh(t) == t \in {"ssh:notty", "ttyssh"}
StartsTty(t) == t \in {"tty1", "ttyssh"}
StartsPts(t) == t \in {"pts/0"}

\* t.startswith("begins"), for a lower-cased token
StartsBegins(t) == t \in {"begins", "beginsx"}

\* a one-token text fully matched by _IPV4_RE, by _IPV6_RE; holding a colon
MatchesIpv4Re(t) == t \in {"10.0.0.1", "192.168.1.100", "999.1.1.1"}
MatchesIpv6Re(t) == t \in {"::1", "0:0:0:0:0:0:0:1", "1:2"}
HasColon(t) == t \in {"::1", "0:0:0:0:0:0:0:1", "1:2", "ssh:notty", "SSH:notty"} \cup TimeToks

\* texts ipaddress.ip_address() accepts
IpAddressAccepts(t) ==
    t \in {"10.0.0.1", "192.168.1.100", "::1", "0:0:0:0:0:0:0:1", "127.0.0.1",
           "169.254.1.1", "240.0.0.1", "fe80::1", "8.8.8.8", "1.2.3.4"}

------------------------------------------------------------------------------
(* parser.py *)

Skip == [kind |-> "skip"]
ValueError == [kind |-> "raise", exc |-> "ValueError"]

\* the empty text; as a record's source_ip it stands for None
NoText == << >>

SKIP_PREFIXES == {"btmp", "wtmp"}
SKIP_USERNAMES == {"reboot", "shutdown"}

Min(S) == CHOOSE x \in S : \A y \in S : x <= y

\* _TIMESTAMP_PATTERN matched against the tokens from position i on.  Inside
\* _LASTB_LINE_RE the pattern lies between \s+ and \s+, so it covers whole
\* tokens (loose = FALSE); re.search lets it start inside token i and end
\* inside token i+4 (loose = TRUE).
TIMESTAMP_PATTERN(toks, i, loose) ==
    /\ i >= 1
    /\ i + 4 <= Len(toks)
    /\ IF loose THEN UllSuffix(toks[i]) # "" ELSE toks[i] \in UllWords
    /\ toks[i + 1] \in UllWords
    /\ toks[i + 2] \in DayToks
    /\ toks[i + 3] \in TimeToks
    /\ IF loose THEN YearPrefix(toks[i + 4]) # "" ELSE toks[i + 4] \in YearToks

\* the text the pattern matched at position i
TimestampText(toks, i) ==
    << UllSuffix(toks[i]), toks[i + 1], toks[i + 2], toks[i + 3],
       YearPrefix(toks[i + 4]) >>

\* the part of _LASTB_LINE_RE after the source group, with the start
\* timestamp at token k: timestamp, "-", timestamp, "(...)", end of line
LineReTail(toks, k) ==
    /\ TIMESTAMP_PATTERN(toks, k, FALSE)
    /\ k + 11 <= Len(toks)
    /\ toks[k + 5] = "-"
    /\ TIMESTAMP_PATTERN(toks, k + 6, FALSE)
    /\ StartsParen(toks[k + 11])
    /\ EndsParen(toks[Len(toks)])

\* _LASTB_LINE_RE.match(line): the position of the start timestamp, 0 when the
\* pattern does not match.  Username and terminal are tokens 1 and 2.  The
\* lazy source group grows from the start of token 3, so a start timestamp
\* behind a non-empty source is tried first, nearest first; the empty source
\* needs the whitespace after the terminal to be split between two \s+.
LASTB_LINE_RE(line) ==
    LET toks == line.toks
        later == {k \in 4..Len(toks) : LineReTail(toks, k)}
    IN  IF line.lead \/ Len(toks) < 3 THEN 0
        ELSE IF later # {} THEN Min(later)
        ELSE IF line.wide2 /\ LineReTail(toks, 3) THEN 3
        ELSE 0

\* a faulty variant: the rightmost match
SearchTimestampLast(toks) ==
    LET found == {i \in 1..Len(toks) : TIMESTAMP_PATTERN(toks, i, TRUE)}
    IN  IF found = {} THEN 0 ELSE CHOOSE p \in found : \A q \in found : q <= p

\* re.search(_TIMESTAMP_PATTERN, stripped): leftmost match, 0 when none
SearchTimestamp(toks) ==
    LET found == {i \in 1..Len(toks) : TIMESTAMP_PATTERN(toks, i, TRUE)}
    IN  IF found = {} THEN 0 ELSE Min(found)

\* datetime.strptime(text, "%a %b %d %H:%M:%S %Y"): a naive datetime, or
\* ValueError.  The weekday name is checked to be one and then dropped.
strptime(ts) ==
    IF /\ ts[1] \in Weekdays
       /\ ts[2] \in Months
       /\ DayNum(ts[3]) >= 1
       /\ DayNum(ts[3]) <= DaysInMonth(ts[2], ts[5])
       /\ ValidTime(ts[4])
    THEN [kind |-> "datetime", year |-> ts[5], month |-> ts[2],
          day |-> DayNum(ts[3]), time |-> ts[4], tzinfo |-> "naive"]
    ELSE ValueError

\* timestamp.replace(tzinfo=timezone.utc)
ReplaceTzUtc(dt) == [dt EXCEPT !.tzinfo = "UTC"]

\* a faulty variant: a text of neither shape gives None, as the docstring of
\* _extract_ip has it
extract_ipShapesOnly(raw) ==
    IF raw = NoText THEN NoText
    ELSE IF Len(raw) = 1 /\ MatchesIpv4Re(raw[1]) THEN raw
    ELSE IF Len(raw) = 1 /\ HasColon(raw[1]) /\ MatchesIpv6Re(raw[1]) THEN raw
    ELSE NoText

\* _extract_ip: every branch behind the emptiness test returns the text
extract_ip(raw) ==
    IF raw = NoText THEN NoText
    ELSE IF Len(raw) = 1 /\ MatchesIpv4Re(raw[1]) THEN raw
    ELSE IF Len(raw) = 1 /\ HasColon(raw[1]) /\ MatchesIpv6Re(raw[1]) THEN raw
    ELSE raw

\* a faulty variant: the tests for "tty" and "pts" come before the one for "ssh"
infer_protocolSshLast(terminal) ==
    LET terminal_lower == Lower(terminal)
    IN  IF StartsTty(terminal_lower) THEN "console"
        ELSE IF StartsPts(terminal_lower) THEN "pts"
        ELSE IF ContainsSsh(terminal_lower) THEN "ssh"
        ELSE "unknown"

infer_protocol(terminal) ==
    LET terminal_lower == Lower(terminal)
    IN  IF ContainsSsh(terminal_lower) THEN "ssh"
        ELSE IF StartsTty(terminal_lower) THEN "console"
        ELSE IF StartsPts(terminal_lower) THEN "pts"
        ELSE "unknown"

\* line.rstrip("\n")
RstripNewline(line) == [line EXCEPT !.nl = FALSE]

\* a faulty variant: the lenient tier lets the ValueError of strptime out
parse_lenientUncaught(line) ==
    LET toks == line.toks
        at == SearchTimestamp(toks)
        parts == IF at = 0 THEN << >>
                 ELSE SubSeq(toks, 1, at - 1) \o
                      (IF UllHead(toks[at]) # "" THEN << UllHead(toks[at]) >>
                       ELSE << >>)
        username == parts[1]
        terminal == IF Len(parts) >= 2 THEN parts[2] ELSE "unknown"
        source_raw == IF Len(parts) >= 3 THEN << parts[3] >> ELSE NoText
        parsed == strptime(TimestampText(toks, at))
    IN  IF Len(toks) = 0 THEN Skip
        ELSE IF at = 0 THEN Skip
        ELSE IF Len(parts) < 1 THEN Skip
        ELSE IF Lower(username) \in SKIP_USERNAMES THEN Skip
        ELSE IF parsed = ValueError THEN ValueError
        ELSE [kind |-> "record",
              username |-> username,
              source_ip |-> IF source_raw # NoText
                            THEN extract_ip(source_raw) ELSE NoText,
              timestamp |-> ReplaceTzUtc(parsed),
              terminal |-> terminal,
              protocol |-> infer_protocol(terminal),
              raw_line |-> RstripNewline(line)]

\* a faulty variant: the lenient tier without the test of the username
parse_lenientAnyUsername(line) ==
    LET toks == line.toks
        at == SearchTimestamp(toks)
        parts == IF at = 0 THEN << >>
                 ELSE SubSeq(toks, 1, at - 1) \o
                      (IF UllHead(toks[at]) # "" THEN << UllHead(toks[at]) >>
                       ELSE << >>)
        username == parts[1]
        terminal == IF Len(parts) >= 2 THEN parts[2] ELSE "unknown"
        source_raw == IF Len(parts) >= 3 THEN << parts[3] >> ELSE NoText
        parsed == strptime(TimestampText(toks, at))
    IN  IF Len(toks) = 0 THEN Skip
        ELSE IF at = 0 THEN Skip
        ELSE IF Len(parts) < 1 THEN Skip
        ELSE IF parsed = ValueError THEN Skip
        ELSE [kind |-> "record",
              username |-> username,
              source_ip |-> IF source_raw # NoText
                            THEN extract_ip(source_raw) ELSE NoText,
              timestamp |-> ReplaceTzUtc(parsed),
              terminal |-> terminal,
              protocol |-> infer_protocol(terminal),
              raw_line |-> RstripNewline(line)]

\* _parse_lenient: the first timestamp anywhere in the line, and in front of
\* it the username, the terminal and the source
parse_lenient(line) ==
    LET toks == line.toks
        at == SearchTimestamp(toks)
        parts == IF at = 0 THEN << >>
                 ELSE SubSeq(toks, 1, at - 1) \o
                      (IF UllHead(toks[at]) # "" THEN << UllHead(toks[at]) >>
                       ELSE << >>)
        username == parts[1]
        terminal == IF Len(parts) >= 2 THEN parts[2] ELSE "unknown"
        source_raw == IF Len(parts) >= 3 THEN << parts[3] >> ELSE NoText
        parsed == strptime(TimestampText(toks, at))
    IN  IF Len(toks) = 0 THEN Skip
        ELSE IF at = 0 THEN Skip
        ELSE IF Len(parts) < 1 THEN Skip
        ELSE IF Lower(username) \in SKIP_USERNAMES THEN Skip
        ELSE IF parsed = ValueError THEN Skip
        ELSE [kind |-> "record",
              username |-> username,
              source_ip |-> IF source_raw # NoText
                            THEN extract_ip(source_raw) ELSE NoText,
              timestamp |-> ReplaceTzUtc(parsed),
              terminal |-> terminal,
              protocol |-> infer_protocol(terminal),
              raw_line |-> RstripNewline(line)]

\* line.strip().lower().startswith(prefix) for a prefix of _SKIP_PREFIXES
StartsWithSkipPrefix(line) ==
    /\ Len(line.toks) >= 2
    /\ Lower(line.toks[1]) \in SKIP_PREFIXES
    /\ ~line.wide1
    /\ StartsBegins(Lower(line.toks[2]))

\* a faulty variant: the ValueError of strptime is not caught
parse_strictUncaught(line, k) ==
    LET username == line.toks[1]
        terminal == line.toks[2]
        source_raw == SubSeq(line.toks, 3, k - 1)
        parsed == strptime(TimestampText(line.toks, k))
    IN  IF Lower(username) \in SKIP_USERNAMES THEN Skip
        ELSE IF parsed = ValueError THEN ValueError
        ELSE [kind |-> "record",
              username |-> username,
              source_ip |-> IF source_raw # NoText
                            THEN extract_ip(source_raw) ELSE NoText,
              timestamp |-> ReplaceTzUtc(parsed),
              terminal |-> terminal,
              protocol |-> infer_protocol(terminal),
              raw_line |-> line]

\* parse_lastb_line from the match on: the line matched _LASTB_LINE_RE with
\* its start timestamp at token k
parse_strict(line, k) ==
    LET username == line.toks[1]
        terminal == line.toks[2]
        source_raw == SubSeq(line.toks, 3, k - 1)
        parsed == strptime(TimestampText(line.toks, k))
    IN  IF Lower(username) \in SKIP_USERNAMES THEN Skip
        ELSE IF parsed = ValueError THEN Skip
        ELSE [kind |-> "record",
              username |-> username,
              source_ip |-> IF source_raw # NoText
                            THEN extract_ip(source_raw) ELSE NoText,
              timestamp |-> ReplaceTzUtc(parsed),
              terminal |-> terminal,
              protocol |-> infer_protocol(terminal),
              raw_line |-> line]

\* "strict" or "lenient": the tier that handles a line the skip tests let by
Tier(line) == IF LASTB_LINE_RE(RstripNewline(line)) = 0 THEN "lenient" ELSE "strict"

parse_lastb_line(line) ==
    IF Len(line.toks) = 0 THEN Skip
    ELSE IF StartsWithSkipPrefix(line) THEN Skip
    ELSE IF Tier(line) = "lenient" THEN parse_lenient(RstripNewline(line))
    ELSE parse_strict(RstripNewline(line), LASTB_LINE_RE(RstripNewline(line)))

\* a faulty variant: a record is put in front of the earlier ones
LoopBodyPrepend(results, line) ==
    LET parsed == parse_lastb_line(line)
    IN  IF parsed.kind = "raise" THEN [raised |-> TRUE, results |-> results]
        ELSE IF parsed # Skip
        THEN [raised |-> FALSE, results |-> << parsed >> \o results]
        ELSE [raised |-> FALSE, results |-> results]

\* a faulty variant: a skipped line discards the records before it
LoopBodyResetOnSkip(results, line) ==
    LET parsed == parse_lastb_line(line)
    IN  IF parsed.kind = "raise" THEN [raised |-> TRUE, results |-> results]
        ELSE IF parsed # Skip
        THEN [raised |-> FALSE, results |-> Append(results, parsed)]
        ELSE [raised |-> FALSE, results |-> << >>]

\* one pass of the loop of parse_lastb_output: the results so far, and
\* whether an exception left the loop
LoopBody(results, line) ==
    LET parsed == parse_lastb_line(line)
    IN  IF parsed.kind = "raise" THEN [raised |-> TRUE, results |-> results]
        ELSE IF parsed # Skip
        THEN [raised |-> FALSE, results |-> Append(results, parsed)]
        ELSE [raised |-> FALSE, results |-> results]

\* the loop from line i on, over the lines text.splitlines() gives
RECURSIVE ParseLines(_, _, _)
ParseLines(text, i, results) ==
    IF i > Len(text) THEN results
    ELSE LET next == LoopBody(results, text[i])
         IN  IF next.raised THEN next.results
             ELSE ParseLines(text, i + 1, next.results)

parse_lastb_output(text) == ParseLines(text, 1, << >>)

------------------------------------------------------------------------------
(* Input lines *)

T1 == << "Fri", "Feb", "14", "03:22:15", "2026" >>
\* the same instant under another weekday name
T1Sat == << "Sat", "Feb", "14", "03:22:15", "2026" >>
T2 == << "Sat", "Feb", "15", "03:22:15", "2026" >>
\* match _TIMESTAMP_PATTERN, are no date: 30 February, no weekday, hour 25
TBadDay == << "Fri", "Feb", "30", "03:22:15", "2026" >>
TBadName == << "Xyz", "Feb", "14", "03:22:15", "2026" >>
TBadHour == << "Fri", "Feb", "14", "25:00:00", "2026" >>
\* no weekday: the pattern matches only from inside the token in front
TNoDay == << "Feb", "14", "03:22:15", "2026" >>

Duration == << "(00:00)" >>

\* tokens tried in front of the timestamp, by position
HeadToks(j) ==
    IF j = 1 THEN {"root", "Reboot", "rebOot", "shutdown", "btmp", "wtmp", "xFri"}
    ELSE IF j = 2 THEN {"ssh:notty", "tty1", "TTY1", "pts/0", "begins",
                        "ttyssh"}
    ELSE {"10.0.0.1", "evil.example.com", "999.1.1.1"}

Heads ==
    UNION {{h \in [1..n -> UNION {HeadToks(j) : j \in 1..n}] :
               \A j \in 1..n : h[j] \in HeadToks(j)} : n \in 0..MaxHead}

StartStamps == {<< >>, T1, T1Sat, TBadDay, TBadName, TBadHour, TNoDay}

\* what follows the start timestamp: nothing; the rest of a lastb line; the
\* same cut short; a second timestamped entry; a duration holding an entry
Tails ==
    { << >>,
      << "-" >> \o T1 \o Duration,
      << "-" >> \o T1,
      T2 \o << "-" >> \o T2 \o Duration,
      << "-" >> \o T1 \o << "(x" >> \o T2 \o << "-" >> \o T2 \o << "(d)" >> }

Lines ==
    {[lead |-> f[1], wide1 |-> f[2], wide2 |-> f[3], nl |-> f[4],
      toks |-> h \o s \o t] :
        f \in [1..4 -> BOOLEAN], h \in Heads, s \in StartStamps, t \in Tails}

------------------------------------------------------------------------------
(* ingest.py: pure parts *)

\* a faulty variant: the shape tests of the parser instead of ip_address
is_valid_ipShapeOnly(value) ==
    Len(value) = 1 /\ (MatchesIpv4Re(value[1]) \/ MatchesIpv6Re(value[1]))

\* is_valid_ip: ipaddress.ip_address(value) raises no ValueError
is_valid_ip(value) == Len(value) = 1 /\ IpAddressAccepts(value[1])

\* a faulty variant: the parsed source is stored as it is
ResolveSourceIpKeepsText(record) == record.source_ip

\* the source_ip insert_records passes to the INSERT for a record
ResolveSourceIp(record) ==
    LET source_ip == record.source_ip
    IN  IF source_ip # NoText /\ ~is_valid_ip(source_ip) THEN NoText
        ELSE source_ip

\* the value a source_ip parameter has in the INET column: NULL for None,
\* else the address, which two spellings of one address share
InetOf(source_ip) ==
    IF source_ip = << "0:0:0:0:0:0:0:1" >> THEN << "::1" >> ELSE source_ip

\* the row the INSERT statement of insert_records offers for a record
RowOf(record) ==
    [username |-> record.username,
     source_ip |-> InetOf(ResolveSourceIp(record)),
     timestamp |-> record.timestamp,
     terminal |-> record.terminal,
     protocol |-> record.protocol,
     raw_line |-> record.raw_line]

\* a faulty variant: NULL source_ip distinct from every value, NULL included
SameSourceIpNullsDistinct(a, b) == a # NoText /\ a = b

\* equality of source_ip in the unique key: NULLS NOT DISTINCT, two NULL
\* source_ip are the same value (test_unique_constraint_nulls)
SameSourceIp(a, b) == a = b

\* ON CONFLICT (username, source_ip, timestamp)
SameNaturalKey(a, b) ==
    /\ a.username = b.username
    /\ SameSourceIp(a.source_ip, b.source_ip)
    /\ a.timestamp = b.timestamp

Conflicts(rows, row) == \E r \in rows : SameNaturalKey(r, row)

------------------------------------------------------------------------------
(* geolocate.py: pure parts *)

\* None, as the value of a field
NoValue == "None"

\* addr.is_private, is_loopback, is_reserved, is_link_local of the addresses
IsPrivateAddr(t) ==
    t \in {"10.0.0.1", "192.168.1.100", "::1", "0:0:0:0:0:0:0:1", "127.0.0.1",
           "169.254.1.1", "240.0.0.1", "fe80::1"}
IsLoopbackAddr(t) == t \in {"::1", "0:0:0:0:0:0:0:1", "127.0.0.1"}
IsReservedAddr(t) == t \in {"::1", "0:0:0:0:0:0:0:1", "240.0.0.1"}
IsLinkLocalAddr(t) == t \in {"169.254.1.1", "fe80::1"}

\* is_private_ip: False when ipaddress.ip_address raises ValueError
is_private_ip(ip_str) ==
    IF ~IpAddressAccepts(ip_str) THEN FALSE
    ELSE \/ IsPrivateAddr(ip_str)
         \/ IsLoopbackAddr(ip_str)
         \/ IsReservedAddr(ip_str)
         \/ IsLinkLocalAddr(ip_str)

\* reader.city(ip_str): None has no attribute city; a closed reader and a
\* text that is no address raise ValueError; the database knows 8.8.8.8
ReaderCity(rdr, ip_str) ==
    IF rdr = "None" THEN [kind |-> "raise", exc |-> "AttributeError"]
    ELSE IF rdr = "closed" THEN ValueError
    ELSE IF ~IpAddressAccepts(ip_str) THEN ValueError
    ELSE IF ip_str = "8.8.8.8"
    THEN [kind |-> "response", iso_code |-> "US", name |-> "United States",
          city |-> NoValue, latitude |-> "37.751", longitude |-> "-97.822"]
    ELSE [kind |-> "raise", exc |-> "AddressNotFoundError"]

\* the dict lookup_ip starts from
EmptyResult(ip_str) ==
    [ip |-> ip_str, country_code |-> NoValue, country |-> NoValue,
     city |-> NoValue, latitude |-> NoValue, longitude |-> NoValue,
     asn |-> NoValue]

\* a faulty variant: the reader is asked before the address is tested
lookup_ipReaderFirst(rdr, ip_str) ==
    LET result == EmptyResult(ip_str)
        response == ReaderCity(rdr, ip_str)
    IN  IF response.kind = "response"
        THEN [result EXCEPT !.country_code = response.iso_code,
                            !.country = response.name,
                            !.city = response.city,
                            !.latitude = response.latitude,
                            !.longitude = response.longitude]
        ELSE IF response.exc # "AddressNotFoundError"
        THEN [result EXCEPT !.country_code = "XX", !.country = "Lookup Failed"]
        ELSE IF is_private_ip(ip_str)
        THEN [result EXCEPT !.country_code = "XX", !.country = "Private",
                            !.city = "Private Network"]
        ELSE [result EXCEPT !.country_code = "XX", !.country = "Unknown"]

lookup_ip(rdr, ip_str) ==
    LET result == EmptyResult(ip_str)
        response == ReaderCity(rdr, ip_str)
    IN  IF is_private_ip(ip_str)
        THEN [result EXCEPT !.country_code = "XX", !.country = "Private",
                            !.city = "Private Network"]
        ELSE IF response.kind = "response"
        THEN [result EXCEPT !.country_code = response.iso_code,
                            !.country = response.name,
                            !.city = response.city,
                            !.latitude = response.latitude,
                            !.longitude = response.longitude]
        ELSE IF response.exc = "AddressNotFoundError"
        THEN [result EXCEPT !.country_code = "XX", !.country = "Unknown"]
        ELSE [result EXCEPT !.country_code = "XX", !.country = "Lookup Failed"]

\* the calls of reader.city lookup_ip makes: none behind the early return
ReaderCalls(ip_str) == IF is_private_ip(ip_str) THEN 0 ELSE 1

\* source_ip::TEXT: the cast of an inet value to text writes the address and
\* the length of its netmask (the tests read the column with host() "to
\* strip /32 netmask")
InetText(ip) ==
    CASE ip = "10.0.0.1" -> "10.0.0.1/32"
      [] ip = "192.168.1.100" -> "192.168.1.100/32"
      [] ip = "127.0.0.1" -> "127.0.0.1/32"
      [] ip = "169.254.1.1" -> "169.254.1.1/32"
      [] ip = "240.0.0.1" -> "240.0.0.1/32"
      [] ip = "8.8.8.8" -> "8.8.8.8/32"
      [] ip = "1.2.3.4" -> "1.2.3.4/32"
      [] ip = "::1" -> "::1/128"
      [] ip = "fe80::1" -> "fe80::1/128"

\* the inet value of a text given for the column ip
InetIn(t) ==
    CASE t = "10.0.0.1/32" -> "10.0.0.1"
      [] t = "192.168.1.100/32" -> "192.168.1.100"
      [] t = "127.0.0.1/32" -> "127.0.0.1"
      [] t = "169.254.1.1/32" -> "169.254.1.1"
      [] t = "240.0.0.1/32" -> "240.0.0.1"
      [] t = "8.8.8.8/32" -> "8.8.8.8"
      [] t = "1.2.3.4/32" -> "1.2.3.4"
      [] t = "::1/128" -> "::1"
      [] t = "fe80::1/128" -> "fe80::1"
      [] t = "0:0:0:0:0:0:0:1" -> "::1"
      [] OTHER -> t

\* get_ungeolocated_ips: SELECT DISTINCT fl.source_ip::TEXT of the rows with
\* a source_ip that no row of ip_geolocations has
get_ungeolocated_ips(rows, geoRows) ==
    {InetText(r.source_ip[1]) :
        r \in {x \in rows : /\ x.source_ip # NoText
                            /\ \A g \in geoRows : g.ip # x.source_ip[1]}}

\* insert_geolocations: INSERT ... ON CONFLICT (ip) DO UPDATE for each record
insert_geolocations(geoRows, recs) ==
    {g \in geoRows : \A rec \in recs : InetIn(rec.ip) # g.ip} \cup
    {[rec EXCEPT !.ip = InetIn(rec.ip)] : rec \in recs}

\* enrich_new_ips: what it returns or raises, and ip_geolocations afterwards
enrich_new_ips(rows, geoRows, file) ==
    LET ips == get_ungeolocated_ips(rows, geoRows)
        found == {lookup_ip("GeoLite2", ip) : ip \in ips}
    IN  IF ~file
        THEN [kind |-> "raise", exc |-> "FileNotFoundError", geo |-> geoRows]
        ELSE IF ips = {}
        THEN [kind |-> "returned", n |-> 0, geo |-> geoRows]
        ELSE [kind |-> "returned", n |-> Cardinality(found),
              geo |-> insert_geolocations(geoRows, found)]

------------------------------------------------------------------------------
(* Input texts of the writer *)

\* most lines of an input text
MaxLines == 2
\* most insert_records calls, over both processes
MaxCalls == 2

LastbLine(head, stamp) ==
    [lead |-> FALSE, wide1 |-> TRUE, wide2 |-> TRUE, nl |-> FALSE,
     toks |-> head \o stamp \o << "-" >> \o stamp \o Duration]

LV6 == LastbLine(<< "root", "ssh:notty", "::1" >>, T1)
LV6Long == LastbLine(<< "root", "ssh:notty", "0:0:0:0:0:0:0:1" >>, T1Sat)
LHost == LastbLine(<< "root", "ssh:notty", "evil.example.com" >>, T1)
LConsole == LastbLine(<< "root", "tty1" >>, T1)

WriterLines == {LV6, LV6Long, LHost, LConsole}

Texts == UNION {[1..n -> WriterLines] : n \in 0..MaxLines}

\* rows of earlier ingestion runs: the keys of LV6 and of LConsole, stored
\* from lines that named another terminal
EarlierLines ==
    { LastbLine(<< "root", "pts/0", "::1" >>, T1),
      LastbLine(<< "root", "pts/0", "999.1.1.1" >>, T1) }

InitialStores == SUBSET {RowOf(parse_lastb_line(l)) : l \in EarlierLines}

------------------------------------------------------------------------------
VARIABLES
    line,        \* parse_lastb_line: its argument
    lineResult,  \* what it returned; Pending before the call
    text,        \* the lines of the raw lastb output
    records,     \* parse_lastb_output(text), the argument of insert_records
    i,           \* parse_lastb_output: the line its loop is at
    results,     \* parse_lastb_output: its list results
    status,      \* parse_lastb_output: "running", "done" or "raised"
    committed,   \* failed_logins: the committed rows
    pending,     \* per process: the rows its open transaction has inserted
    pc,          \* per process: where it is in insert_records
    idx,         \* per process: the record the loop is at
    inserted,    \* per process: the local inserted
    conn,        \* per process: "none", "open" or "closed"
    ops,         \* per process: the storage operations of the current call
    before,      \* per process: the committed rows when the call started
    peers,       \* per process: the calls that ran during the current call
    hist,        \* per process: the finished calls, oldest first
    store0,      \* the committed rows before the first call
    mpc,         \* main: where it is
    report,      \* main: what it has logged and run, oldest first
    geo,         \* ip_geolocations: the committed rows
    dbfile,      \* the GeoLite2 database file exists
    enriched,    \* what enrich_new_ips returned or raised; Pending before
    ip_str,      \* lookup_ip: its argument ip_str
    reader,      \* lookup_ip: its argument reader
    lookupResult,\* what lookup_ip returned; Pending before the call
    readerCalls  \* lookup_ip: the calls of reader.city it made

lineVars == << line, lineResult >>
parseVars == << i, results, status >>
mainVars == << mpc, report >>
geoVars == << geo, dbfile, enriched >>
lookupVars == << ip_str, reader, lookupResult, readerCalls >>
sideVars == << mainVars, geoVars, lookupVars >>
inputVars == << line, lineResult, text, records, i, results, status,
               sideVars >>
writerVars == << committed, pending, pc, idx, inserted, conn, ops, before,
                 peers, hist, store0 >>

vars == << line, lineResult, text, records, i, results, status, committed,
           pending, pc, idx, inserted, conn, ops, before, peers, hist, store0,
           mpc, report, geo, dbfile, enriched, ip_str, reader, lookupResult,
           readerCalls >>

Pending == [kind |-> "pending"]

Procs == {"A", "B"}
Other(w) == IF w = "A" THEN "B" ELSE "A"

\* a process is between acquiring its connection and closing it
InCall(w) == pc[w] \in {"loop", "commit", "except", "finally", "finally_raise"}

IdleLine ==
    /\ line = [lead |-> FALSE, wide1 |-> FALSE, wide2 |-> FALSE, nl |-> FALSE,
               toks |-> << >>]
    /\ lineResult = Pending

IdleParse ==
    /\ i = 1
    /\ results = << >>
    /\ status = "done"

IdleMain ==
    /\ mpc = "idle"
    /\ report = << >>

IdleGeo ==
    /\ geo = {}
    /\ dbfile = FALSE
    /\ enriched = Pending

IdleLookup ==
    /\ ip_str = ""
    /\ reader = "None"
    /\ lookupResult = Pending
    /\ readerCalls = 0

IdleWriter ==
    /\ committed = {}
    /\ pending = [w \in Procs |-> {}]
    /\ pc = [w \in Procs |-> "idle"]
    /\ idx = [w \in Procs |-> 1]
    /\ inserted = [w \in Procs |-> 0]
    /\ conn = [w \in Procs |-> "none"]
    /\ ops = [w \in Procs |-> << >>]
    /\ before = [w \in Procs |-> {}]
    /\ peers = [w \in Procs |-> {}]
    /\ hist = [w \in Procs |-> << >>]
    /\ store0 = committed

------------------------------------------------------------------------------
(* parse_lastb_line applied to one line *)

InitLine ==
    /\ line \in Lines
    /\ lineResult = Pending
    /\ text = << >>
    /\ records = << >>
    /\ IdleParse
    /\ IdleWriter
    /\ IdleMain
    /\ IdleGeo
    /\ IdleLookup

CallParseLine ==
    /\ lineResult = Pending
    /\ lineResult' = parse_lastb_line(line)
    /\ UNCHANGED << line, text, records, parseVars, writerVars, sideVars >>

NextLine == CallParseLine

SpecLine == InitLine /\ [][NextLine]_vars

------------------------------------------------------------------------------
(* parse_lastb_output applied to a text *)

\* lines of every outcome: a record by the strict and by the lenient tier, a
\* timestamp that is no date in either tier, the skipped kinds, no timestamp
OutputLines ==
    { LV6,
      LastbLine(<< "root", "ssh:notty", "10.0.0.1" >>, TBadDay),
      [LHost EXCEPT !.toks = << "root", "tty1", "evil.example.com" >> \o T2],
      [LHost EXCEPT !.toks = << "root", "tty1" >> \o TBadHour],
      LastbLine(<< "reboot", "system", "boot" >>, T2),
      [LHost EXCEPT !.wide1 = FALSE, !.toks = << "btmp", "begins" >> \o T1],
      [LHost EXCEPT !.toks = << >>],
      [LHost EXCEPT !.toks = << "garbage" >>] }

ParseTexts == UNION {[1..n -> OutputLines] : n \in 0..MaxLines}

InitParse ==
    /\ IdleLine
    /\ text \in ParseTexts
    /\ records = << >>
    /\ i = 1
    /\ results = << >>
    /\ status = "running"
    /\ IdleWriter
    /\ IdleMain
    /\ IdleGeo
    /\ IdleLookup

\* one pass of the loop; an exception of parse_lastb_line ends the call
ParseNextLine ==
    /\ status = "running"
    /\ i <= Len(text)
    /\ LET next == LoopBody(results, text[i])
       IN  IF next.raised
           THEN /\ status' = "raised"
                /\ UNCHANGED << i, results >>
           ELSE /\ results' = next.results
                /\ i' = i + 1
                /\ UNCHANGED status
    /\ UNCHANGED << line, lineResult, text, records, writerVars, sideVars >>

\* return results
ParseReturn ==
    /\ status = "running"
    /\ i > Len(text)
    /\ status' = "done"
    /\ UNCHANGED << line, lineResult, text, records, i, results, writerVars,
                    sideVars >>

NextParse == ParseNextLine \/ ParseReturn

SpecParse == InitParse /\ [][NextParse]_vars

------------------------------------------------------------------------------
(* lookup_ip applied to one text *)

\* addresses of every kind, and texts that are no address
LookupTexts ==
    {"10.0.0.1", "192.168.1.100", "::1", "0:0:0:0:0:0:0:1", "127.0.0.1",
     "169.254.1.1", "240.0.0.1", "fe80::1", "8.8.8.8", "1.2.3.4",
     "evil.example.com", "999.1.1.1", "not-an-ip", "",
     "10.0.0.1/32", "192.168.1.100/32", "::1/128", "8.8.8.8/32"}

Readers == {"None", "GeoLite2", "closed"}

InitLookup ==
    /\ IdleLine
    /\ text = << >>
    /\ records = << >>
    /\ IdleParse
    /\ IdleWriter
    /\ IdleMain
    /\ IdleGeo
    /\ ip_str \in LookupTexts
    /\ reader \in Readers
    /\ lookupResult = Pending
    /\ readerCalls = 0

CallLookupIp ==
    /\ lookupResult = Pending
    /\ lookupResult' = lookup_ip(reader, ip_str)
    /\ readerCalls' = ReaderCalls(ip_str)
    /\ UNCHANGED << line, lineResult, text, records, parseVars, writerVars,
                    mainVars, geoVars, ip_str, reader >>

NextLookup == CallLookupIp

SpecLookup == InitLookup /\ [][NextLookup]_vars

------------------------------------------------------------------------------
(* enrich_new_ips run against a store *)

\* rows of failed_logins with private and public source addresses and none
GeoLines ==
    { LastbLine(<< "root", "ssh:notty", "10.0.0.1" >>, T1),
      LastbLine(<< "root", "ssh:notty", "192.168.1.100" >>, T1),
      LastbLine(<< "root", "ssh:notty", "8.8.8.8" >>, T1),
      LV6, LConsole }

GeoStores == SUBSET {RowOf(parse_lastb_line(l)) : l \in GeoLines}

\* ip_geolocations before the run: empty, or holding 192.168.1.100
GeoTables ==
    { {}, {[EmptyResult("192.168.1.100") EXCEPT !.country_code = "XX",
               !.country = "Private", !.city = "Private Network"]} }

InitGeo ==
    /\ IdleLine
    /\ text = << >>
    /\ records = << >>
    /\ IdleParse
    /\ committed \in GeoStores
    /\ pending = [w \in Procs |-> {}]
    /\ pc = [w \in Procs |-> "idle"]
    /\ idx = [w \in Procs |-> 1]
    /\ inserted = [w \in Procs |-> 0]
    /\ conn = [w \in Procs |-> "none"]
    /\ ops = [w \in Procs |-> << >>]
    /\ before = [w \in Procs |-> {}]
    /\ peers = [w \in Procs |-> {}]
    /\ hist = [w \in Procs |-> << >>]
    /\ store0 = committed
    /\ IdleMain
    /\ geo \in GeoTables
    /\ dbfile \in BOOLEAN
    /\ enriched = Pending
    /\ IdleLookup

CallEnrichNewIps ==
    /\ enriched = Pending
    /\ LET out == enrich_new_ips(committed, geo, dbfile)
       IN  /\ geo' = out.geo
           /\ enriched' = IF out.kind = "returned"
                          THEN [kind |-> "returned", n |-> out.n]
                          ELSE [kind |-> "raise", exc |-> out.exc]
    /\ UNCHANGED << line, lineResult, text, records, parseVars, writerVars,
                    mainVars, dbfile, lookupVars >>

NextGeo == CallEnrichNewIps

SpecGeo == InitGeo /\ [][NextGeo]_vars

------------------------------------------------------------------------------
(* insert_records, run by two processes against one store *)

Init ==
    /\ IdleLine
    /\ IdleParse
    /\ text \in Texts
    /\ records = parse_lastb_output(text)
    /\ committed \in InitialStores
    /\ pending = [w \in Procs |-> {}]
    /\ pc = [w \in Procs |-> "idle"]
    /\ idx = [w \in Procs |-> 1]
    /\ inserted = [w \in Procs |-> 0]
    /\ conn = [w \in Procs |-> "none"]
    /\ ops = [w \in Procs |-> << >>]
    /\ before = [w \in Procs |-> {}]
    /\ peers = [w \in Procs |-> {}]
    /\ hist = [w \in Procs |-> << >>]
    /\ store0 = committed
    /\ IdleMain
    /\ IdleGeo
    /\ IdleLookup

\* the calls started so far
Calls ==
    Len(hist["A"]) + Len(hist["B"]) + Cardinality({w \in Procs : InCall(w)})

CanCall(w) ==
    /\ pc[w] \in {"idle", "returned", "raised"}
    /\ Calls < MaxCalls

\* the n-th call of process w
CallId(w, n) == << w, n >>
CurrentCall(w) == CallId(w, Len(hist[w]) + 1)

\* a finished call, as the caller and the store saw it: how it ended, what
\* it returned if it did, the committed rows at its start and at its end,
\* and the calls that ran meanwhile
Finished(result, ret, rowsBefore, others) ==
    [result |-> result, ret |-> ret, before |-> rowsBefore,
     after |-> committed, peers |-> others]

\* the current call of process w has made the operation op
Did(w, op) == \E p \in 1..Len(ops[w]) : ops[w][p] = op

\* a faulty variant: the connection is opened before the emptiness test
ReturnEmptyConnects(w) ==
    /\ CanCall(w)
    /\ records = << >>
    /\ pc' = [pc EXCEPT ![w] = "returned"]
    /\ conn' = [conn EXCEPT ![w] = "closed"]
    /\ ops' = [ops EXCEPT ![w] = << "connect", "commit", "close" >>]
    /\ hist' = [hist EXCEPT ![w] = Append(@,
                  Finished("returned", << 0 >>, committed, {}))]
    /\ UNCHANGED << inputVars, committed, pending, idx, inserted, before,
                    peers, store0 >>

\* if not records: return 0
ReturnEmpty(w) ==
    /\ CanCall(w)
    /\ records = << >>
    /\ pc' = [pc EXCEPT ![w] = "returned"]
    /\ conn' = [conn EXCEPT ![w] = "none"]
    /\ ops' = [ops EXCEPT ![w] = << >>]
    /\ hist' = [hist EXCEPT ![w] = Append(@,
                  Finished("returned", << 0 >>, committed, {}))]
    /\ UNCHANGED << inputVars, committed, pending, idx, inserted, before,
                    peers, store0 >>

\* conn = get_db_connection(); inserted = 0; cur = conn.cursor()
Connect(w) ==
    /\ CanCall(w)
    /\ records # << >>
    /\ pc' = [pc EXCEPT ![w] = "loop"]
    /\ conn' = [conn EXCEPT ![w] = "open"]
    /\ ops' = [ops EXCEPT ![w] = << "connect" >>]
    /\ inserted' = [inserted EXCEPT ![w] = 0]
    /\ idx' = [idx EXCEPT ![w] = 1]
    /\ before' = [before EXCEPT ![w] = committed]
    /\ peers' = [v \in Procs |->
                    IF ~InCall(Other(w)) THEN IF v = w THEN {} ELSE peers[v]
                    ELSE IF v = w THEN {CurrentCall(Other(w))}
                    ELSE peers[v] \cup {CurrentCall(w)}]
    /\ UNCHANGED << inputVars, committed, pending, hist, store0 >>

\* get_db_connection() raises: no connection, nothing to roll back or close
ConnectFails(w) ==
    /\ CanCall(w)
    /\ records # << >>
    /\ pc' = [pc EXCEPT ![w] = "raised"]
    /\ conn' = [conn EXCEPT ![w] = "none"]
    /\ ops' = [ops EXCEPT ![w] = << "connect failed" >>]
    /\ hist' = [hist EXCEPT ![w] = Append(@,
                  Finished("raised", << >>, committed, {}))]
    /\ UNCHANGED << inputVars, committed, pending, idx, inserted, before,
                    peers, store0 >>

\* a faulty variant: the statement does not wait for the other transaction
BlockedNever(w, row) == FALSE

\* the INSERT waits while another open transaction holds a row of its key
Blocked(w, row) == Conflicts(pending[Other(w)], row)

\* a faulty variant: a plain INSERT, every statement stores its row
RowcountAlwaysOne(w, row) == 1

\* a faulty variant: the conflict check sees the rows of its own transaction
\* only, not the rows the store already holds
RowcountOwnOnly(w, row) == IF Conflicts(pending[w], row) THEN 0 ELSE 1

\* a faulty variant: the conflict check sees the committed rows only
RowcountCommittedOnly(w, row) == IF Conflicts(committed, row) THEN 0 ELSE 1

\* cur.rowcount after INSERT ... ON CONFLICT (username, source_ip, timestamp)
\* DO NOTHING: the statement sees the committed rows and the rows of its own
\* transaction
Rowcount(w, row) ==
    IF Conflicts(committed \cup pending[w], row) THEN 0 ELSE 1

\* a faulty variant: every record is counted
CountInsertedAlways(n, rowcount) == n + 1

\* if cur.rowcount > 0: inserted += 1
CountInserted(n, rowcount) == IF rowcount > 0 THEN n + 1 ELSE n

\* one pass of the loop: resolve source_ip, cur.execute, count
InsertRecord(w) ==
    LET row == RowOf(records[idx[w]])
        rowcount == Rowcount(w, row)
    IN  /\ pc[w] = "loop"
        /\ ~Blocked(w, row)
        /\ pending' = [pending EXCEPT ![w] =
                          IF rowcount > 0 THEN @ \cup {row} ELSE @]
        /\ inserted' = [inserted EXCEPT ![w] = CountInserted(@, rowcount)]
        /\ idx' = [idx EXCEPT ![w] = @ + 1]
        /\ ops' = [ops EXCEPT ![w] = Append(@, "execute")]
        /\ pc' = [pc EXCEPT ![w] =
                          IF idx[w] + 1 > Len(records) THEN "commit" ELSE "loop"]
        /\ UNCHANGED << inputVars, committed, conn, before, peers, hist,
                        store0 >>

\* a faulty variant: a failed statement is issued again
ExecuteFailsRetries(w) ==
    /\ pc[w] = "loop"
    /\ ~Did(w, "execute failed")
    /\ ops' = [ops EXCEPT ![w] = Append(@, "execute failed")]
    /\ UNCHANGED << inputVars, committed, pending, pc, idx, inserted, conn,
                    before, peers, hist, store0 >>

\* cur.execute raises
ExecuteFails(w) ==
    /\ pc[w] = "loop"
    /\ ops' = [ops EXCEPT ![w] = Append(@, "execute failed")]
    /\ pc' = [pc EXCEPT ![w] = "except"]
    /\ UNCHANGED << inputVars, committed, pending, idx, inserted, conn,
                    before, peers, hist, store0 >>

\* conn.commit(); logger.info("Inserted %d new records (out of %d parsed)")
Commit(w) ==
    /\ pc[w] = "commit"
    /\ committed' = committed \cup pending[w]
    /\ pending' = [pending EXCEPT ![w] = {}]
    /\ ops' = [ops EXCEPT ![w] = @ \o << "commit", "log inserted" >>]
    /\ pc' = [pc EXCEPT ![w] = "finally"]
    /\ UNCHANGED << inputVars, idx, inserted, conn, before, peers, hist,
                    store0 >>

\* conn.commit() raises: the transaction is not committed
CommitFails(w) ==
    /\ pc[w] = "commit"
    /\ ops' = [ops EXCEPT ![w] = Append(@, "commit failed")]
    /\ pc' = [pc EXCEPT ![w] = "except"]
    /\ UNCHANGED << inputVars, committed, pending, idx, inserted, conn,
                    before, peers, hist, store0 >>

\* a faulty variant: the handler keeps what the transaction had inserted
RollbackKeepsRows(w) ==
    /\ pc[w] = "except"
    /\ committed' = committed \cup pending[w]
    /\ pending' = [pending EXCEPT ![w] = {}]
    /\ ops' = [ops EXCEPT ![w] = Append(@, "rollback")]
    /\ pc' = [pc EXCEPT ![w] = "finally_raise"]
    /\ UNCHANGED << inputVars, idx, inserted, conn, before, peers, hist,
                    store0 >>

\* except Exception: conn.rollback(); raise
Rollback(w) ==
    /\ pc[w] = "except"
    /\ pending' = [pending EXCEPT ![w] = {}]
    /\ ops' = [ops EXCEPT ![w] = Append(@, "rollback")]
    /\ pc' = [pc EXCEPT ![w] = "finally_raise"]
    /\ UNCHANGED << inputVars, committed, idx, inserted, conn, before,
                    peers, hist, store0 >>

\* a faulty variant: the connection is closed after the commit only
CloseAfterCommitOnly(w) ==
    /\ pc[w] \in {"finally", "finally_raise"}
    /\ conn' = [conn EXCEPT ![w] = IF pc[w] = "finally" THEN "closed" ELSE @]
    /\ ops' = [ops EXCEPT ![w] =
                   IF pc[w] = "finally" THEN Append(@, "close") ELSE @]
    /\ pc' = [pc EXCEPT ![w] =
                 IF pc[w] = "finally" THEN "returned" ELSE "raised"]
    /\ hist' = [hist EXCEPT ![w] = Append(@,
                  IF pc[w] = "finally"
                  THEN Finished("returned", << inserted[w] >>, before[w],
                                peers[w])
                  ELSE Finished("raised", << >>, before[w], peers[w]))]
    /\ UNCHANGED << inputVars, committed, pending, idx, inserted, before,
                    peers, store0 >>

\* finally: conn.close(); then return inserted, or the exception goes on
Close(w) ==
    /\ pc[w] \in {"finally", "finally_raise"}
    /\ conn' = [conn EXCEPT ![w] = "closed"]
    /\ ops' = [ops EXCEPT ![w] = Append(@, "close")]
    /\ pc' = [pc EXCEPT ![w] =
                 IF pc[w] = "finally" THEN "returned" ELSE "raised"]
    /\ hist' = [hist EXCEPT ![w] = Append(@,
                  IF pc[w] = "finally"
                  THEN Finished("returned", << inserted[w] >>, before[w],
                                peers[w])
                  ELSE Finished("raised", << >>, before[w], peers[w]))]
    /\ UNCHANGED << inputVars, committed, pending, idx, inserted, before,
                    peers, store0 >>

insert_records(w) ==
    \/ ReturnEmpty(w)
    \/ Connect(w)
    \/ ConnectFails(w)
    \/ InsertRecord(w)
    \/ ExecuteFails(w)
    \/ Commit(w)
    \/ CommitFails(w)
    \/ Rollback(w)
    \/ Close(w)

Next == \E w \in Procs : insert_records(w)

Spec == Init /\ [][Next]_vars

------------------------------------------------------------------------------
(* main: one ingestion run *)

LReboot == LastbLine(<< "reboot", "system", "boot" >>, T2)
LBlank == [LHost EXCEPT !.toks = << >>]

\* raw outputs: those of the writer, one of a skipped line, one of a blank
MainTexts == Texts \cup {<< LReboot >>, << LBlank >>}

\* not raw_output.strip()
IsBlankOutput(t) == \A j \in 1..Len(t) : Len(t[j].toks) = 0

Report(msg, n) == [msg |-> msg, n |-> n]

InitMain ==
    /\ IdleLine
    /\ IdleParse
    /\ text \in MainTexts
    /\ records = << >>
    /\ committed \in InitialStores
    /\ pending = [w \in Procs |-> {}]
    /\ pc = [w \in Procs |-> "idle"]
    /\ idx = [w \in Procs |-> 1]
    /\ inserted = [w \in Procs |-> 0]
    /\ conn = [w \in Procs |-> "none"]
    /\ ops = [w \in Procs |-> << >>]
    /\ before = [w \in Procs |-> {}]
    /\ peers = [w \in Procs |-> {}]
    /\ hist = [w \in Procs |-> << >>]
    /\ store0 = committed
    /\ mpc = "start"
    /\ report = << >>
    /\ geo = {}
    /\ dbfile \in BOOLEAN
    /\ enriched = Pending
    /\ IdleLookup

\* Step 1, no output: log and return
MainNoData ==
    /\ mpc = "start"
    /\ IsBlankOutput(text)
    /\ report' = Append(report, Report("No lastb data to process", 0))
    /\ mpc' = "done"
    /\ UNCHANGED << line, lineResult, text, records, parseVars, writerVars,
                    geoVars, lookupVars >>

\* Step 2: parse, log the number of records, return if there is none
MainParse ==
    /\ mpc = "start"
    /\ ~IsBlankOutput(text)
    /\ records' = parse_lastb_output(text)
    /\ report' = Append(report, Report("Parsed", Len(records')))
    /\ mpc' = IF records' = << >> THEN "done" ELSE "insert"
    /\ UNCHANGED << line, lineResult, text, parseVars, writerVars, geoVars,
                    lookupVars >>

\* Step 3, the call: insert_records(records) starts; records is not empty
MainCallInsert ==
    /\ mpc = "insert"
    /\ pc["A"] = "idle"
    /\ Connect("A") \/ ConnectFails("A")

\* Step 3, inside insert_records
MainInsertStep ==
    /\ mpc = "insert"
    /\ \/ InsertRecord("A")
       \/ ExecuteFails("A")
       \/ Commit("A")
       \/ CommitFails("A")
       \/ Rollback("A")
       \/ Close("A")

\* a faulty variant: a failed write is taken for a write of no record
MainAfterInsertSwallows ==
    /\ mpc = "insert"
    /\ pc["A"] \in {"returned", "raised"}
    /\ mpc' = IF pc["A"] = "raised" THEN "refresh"
              ELSE IF hist["A"][1].ret[1] > 0 THEN "geolocate"
              ELSE "refresh"
    /\ UNCHANGED << line, lineResult, text, records, parseVars, writerVars,
                    report, geoVars, lookupVars >>

\* Step 3, the outcome: inserted = insert_records(records), or its exception
\* leaves main; Step 4 is entered if inserted > 0
MainAfterInsert ==
    /\ mpc = "insert"
    /\ pc["A"] \in {"returned", "raised"}
    /\ mpc' = IF pc["A"] = "raised" THEN "raised"
              ELSE IF hist["A"][1].ret[1] > 0 THEN "geolocate"
              ELSE "refresh"
    /\ UNCHANGED << line, lineResult, text, records, parseVars, writerVars,
                    report, geoVars, lookupVars >>

\* a faulty variant: an exception of enrich_new_ips leaves run_geolocation
MainGeolocateUncaught ==
    /\ mpc = "geolocate"
    /\ LET out == enrich_new_ips(committed, geo, dbfile)
       IN  /\ geo' = out.geo
           /\ enriched' = IF out.kind = "returned"
                          THEN [kind |-> "returned", n |-> out.n]
                          ELSE [kind |-> "raise", exc |-> out.exc]
           /\ mpc' = IF out.kind = "returned" THEN "refresh" ELSE "raised"
    /\ report' = Append(report, Report("run_geolocation", 0))
    /\ UNCHANGED << line, lineResult, text, records, parseVars, writerVars,
                    dbfile, lookupVars >>

\* Step 4: run_geolocation(), which logs every exception and raises none
MainGeolocate ==
    /\ mpc = "geolocate"
    /\ LET out == enrich_new_ips(committed, geo, dbfile)
       IN  /\ geo' = out.geo
           /\ enriched' = IF out.kind = "returned"
                          THEN [kind |-> "returned", n |-> out.n]
                          ELSE [kind |-> "raise", exc |-> out.exc]
    /\ report' = Append(report, Report("run_geolocation", 0))
    /\ mpc' = "refresh"
    /\ UNCHANGED << line, lineResult, text, records, parseVars, writerVars,
                    dbfile, lookupVars >>

\* Step 5: refresh_views(), refreshing or logging that it could not
MainRefresh ==
    /\ mpc = "refresh"
    /\ \E outcome \in {"Materialized views refreshed",
                        "Could not refresh materialized views"} :
          report' = report \o << Report("refresh_views", 0),
                                 Report(outcome, 0) >>
    /\ mpc' = "complete"
    /\ UNCHANGED << line, lineResult, text, records, parseVars, writerVars,
                    geoVars, lookupVars >>

\* Step 5, get_db_connection() of refresh_views raises: the exception leaves
\* main
MainRefreshConnectFails ==
    /\ mpc = "refresh"
    /\ report' = Append(report, Report("refresh_views", 0))
    /\ mpc' = "raised"
    /\ UNCHANGED << line, lineResult, text, records, parseVars, writerVars,
                    geoVars, lookupVars >>

\* logger.info("Ingestion complete: %d new records", inserted)
MainComplete ==
    /\ mpc = "complete"
    /\ report' = Append(report,
                        Report("Ingestion complete", hist["A"][1].ret[1]))
    /\ mpc' = "done"
    /\ UNCHANGED << line, lineResult, text, records, parseVars, writerVars,
                    geoVars, lookupVars >>

NextMain ==
    \/ MainNoData
    \/ MainParse
    \/ MainCallInsert
    \/ MainInsertStep
    \/ MainAfterInsert
    \/ MainGeolocate
    \/ MainRefresh
    \/ MainRefreshConnectFails
    \/ MainComplete

SpecMain == InitMain /\ [][NextMain]_vars

------------------------------------------------------------------------------
(* Properties of insert_records *)

\* the natural key of a row, and the keys of a set of rows
KeyOf(row) == << row.username, row.source_ip, row.timestamp >>
KeysOf(rows) == {KeyOf(r) : r \in rows}

\* the natural keys of the batch, with the source IP as it is resolved
BatchKeys == {KeyOf(RowOf(records[j])) : j \in 1..Len(records)}

\* the finished calls of a process that returned and ran with no other call
AloneReturned(w) ==
    {n \in 1..Len(hist[w]) :
        hist[w][n].result = "returned" /\ hist[w][n].peers = {}}

\* C1: when insert_records runs twice in succession on the records of one
\* text, both runs returning and no other writer at work, the second run
\* returns 0 and leaves the stored rows as the first run left them.
C1_Idempotence ==
    \A w \in Procs : \A n \in AloneReturned(w) :
        (n + 1 \in AloneReturned(w) /\ hist[w][n + 1].before = hist[w][n].after)
        => /\ hist[w][n + 1].ret = << 0 >>
           /\ hist[w][n + 1].after = hist[w][n].after

\* a first run that inserted rows into a store that held some, then a second
C1_Witness ==
    \E w \in Procs : \E n \in AloneReturned(w) :
        /\ n + 1 \in AloneReturned(w)
        /\ hist[w][n + 1].before = hist[w][n].after
        /\ hist[w][n].ret[1] >= 1
        /\ hist[w][n].before # {}

\* C2: the store never holds two rows with the same username, resolved
\* source IP and timestamp, two null source IPs being the same; a record
\* whose key the store or the transaction already holds is neither inserted
\* nor counted.
C2_NaturalKeyUnique ==
    /\ \A r1, r2 \in committed : KeyOf(r1) = KeyOf(r2) => r1 = r2
    /\ \A w \in Procs :
          /\ \A r1, r2 \in committed \cup pending[w] :
                KeyOf(r1) = KeyOf(r2) => r1 = r2
          /\ pc[w] \in {"loop", "commit"} =>
                inserted[w] = Cardinality(pending[w])

\* two records of one user and instant, both stored with no source IP, written
\* into an empty store: one row, a count of 1
C2_Witness ==
    \E w \in Procs : \E n \in AloneReturned(w) :
        /\ Len(records) = 2
        /\ RowOf(records[1]).source_ip = NoText
        /\ RowOf(records[2]).source_ip = NoText
        /\ records[1].raw_line # records[2].raw_line
        /\ hist[w][n].before = {}
        /\ hist[w][n].ret = << 1 >>
        /\ Cardinality(hist[w][n].after) = 1

\* C3: when a call of each process runs on the batch while the other does,
\* and both return, the store ends with one row for each natural key of the
\* batch, and the two counts add up to the number of keys of the batch the
\* store did not hold before either call started.
C3_ConcurrentWriters ==
    \A m \in 1..Len(hist["A"]) : \A n \in 1..Len(hist["B"]) :
        LET a == hist["A"][m]
            b == hist["B"][n]
            start == a.before \cap b.before
            end == a.after \cup b.after
        IN  (/\ a.result = "returned"
             /\ b.result = "returned"
             /\ a.peers = {CallId("B", n)}
             /\ b.peers = {CallId("A", m)})
            => /\ \A k \in BatchKeys :
                     Cardinality({r \in end : KeyOf(r) = k}) = 1
               /\ a.ret[1] + b.ret[1] =
                     Cardinality(BatchKeys \ KeysOf(start))

\* two overlapping calls returned, both having started before the other
\* committed, and rows were inserted
C3_Witness ==
    \E m \in 1..Len(hist["A"]) : \E n \in 1..Len(hist["B"]) :
        LET a == hist["A"][m]
            b == hist["B"][n]
        IN  /\ a.result = "returned"
            /\ b.result = "returned"
            /\ a.peers = {CallId("B", n)}
            /\ b.peers = {CallId("A", m)}
            /\ a.before = b.before
            /\ a.ret[1] + b.ret[1] >= 1
            /\ Cardinality(BatchKeys) = 2

\* the current call of a process had a storage operation fail
Failed(w) ==
    \E p \in 1..Len(ops[w]) :
        ops[w][p] \in {"connect failed", "execute failed", "commit failed"}

\* C4: a call that had an insert or the commit fail ends by raising, and it
\* leaves the committed rows as they were when it started; the committed rows
\* never hold a part of the batch only.
C4_BatchAtomicity ==
    /\ \A w \in Procs :
          /\ Failed(w) => pc[w] \in {"except", "finally_raise", "raised"}
          /\ \A n \in 1..Len(hist[w]) :
                (hist[w][n].result = "raised" /\ hist[w][n].peers = {})
                => hist[w][n].after = hist[w][n].before
    /\ \/ committed = store0
       \/ BatchKeys \subseteq KeysOf(committed)

\* a call whose commit failed after it had inserted a row has raised
C4_Witness ==
    \E w \in Procs :
        /\ pc[w] = "raised"
        /\ peers[w] = {}
        /\ \E p \in 1..Len(ops[w]) : ops[w][p] = "commit failed"
        /\ ~(BatchKeys \subseteq KeysOf(committed))
        /\ Len(records) = 2

\* C5: a call that returned with no other writer at work returns the number
\* of rows it created, which is the number of natural keys of the batch the
\* store did not hold: a key the store held, or an earlier record of the
\* batch had, adds nothing.
C5_CountAccuracy ==
    \A w \in Procs : \A n \in AloneReturned(w) :
        LET c == hist[w][n]
        IN  /\ c.ret[1] = Cardinality(c.after) - Cardinality(c.before)
            /\ c.ret[1] = Cardinality(BatchKeys \ KeysOf(c.before))
            /\ c.before \subseteq c.after

\* a batch of two keys, one of which the store held: a count of 1
C5_Witness ==
    \E w \in Procs : \E n \in AloneReturned(w) :
        /\ Cardinality(BatchKeys) = 2
        /\ Cardinality(BatchKeys \cap KeysOf(hist[w][n].before)) = 1
        /\ hist[w][n].ret = << 1 >>

\* C6: writing the records of a text into an empty store, with no storage
\* failure and no other writer, returns the number of distinct natural keys
\* among the records, and the store then holds that many rows; the number
\* of records when no two of them share a key.
C6_FirstRunDistinctKeys ==
    \A w \in Procs : \A n \in AloneReturned(w) :
        hist[w][n].before = {}
        => /\ hist[w][n].ret = << Cardinality(BatchKeys) >>
           /\ Cardinality(hist[w][n].after) = Cardinality(BatchKeys)
           /\ (Cardinality(BatchKeys) = Len(records)
                 => hist[w][n].ret = << Len(records) >>)

\* two records of one key written into an empty store: a count of 1
C6_Witness ==
    \E w \in Procs : \E n \in AloneReturned(w) :
        /\ hist[w][n].before = {}
        /\ Len(records) = 2
        /\ records[1] = records[2]
        /\ records[1].source_ip = << "::1" >>
        /\ hist[w][n].ret = << 1 >>

\* C6 as stated: the first run into an empty store returns the number of
\* parsed records, and the store then holds that many rows.
C6_FirstRunAllRecords ==
    \A w \in Procs : \A n \in AloneReturned(w) :
        hist[w][n].before = {}
        => /\ hist[w][n].ret = << Len(records) >>
           /\ Cardinality(hist[w][n].after) = Len(records)

\* the rows the calls have stored or hold in an open transaction
Written == (committed \ store0) \cup pending["A"] \cup pending["B"]

\* C7: every stored row has a source IP that is null or a text
\* ipaddress.ip_address accepts; a record whose parsed source is a text it
\* rejects is stored with a null source IP and with its raw_line, which
\* holds that text, unchanged.
C7_WriteTimeIpResolution ==
    /\ \A r \in committed \cup pending["A"] \cup pending["B"] :
          r.source_ip = NoText \/
          (Len(r.source_ip) = 1 /\ IpAddressAccepts(r.source_ip[1]))
    /\ \A r \in Written : \E j \in 1..Len(records) :
          /\ r.raw_line = records[j].raw_line
          /\ r.raw_line = RstripNewline(text[j])
          /\ (records[j].source_ip # NoText /\
              ~IpAddressAccepts(records[j].source_ip[1]))
             => /\ r.source_ip = NoText
                /\ \E p \in 1..Len(r.raw_line.toks) :
                      r.raw_line.toks[p] = records[j].source_ip[1]

\* a committed row of a record whose source was a hostname
C7_Witness ==
    \E r \in committed \ store0 : \E j \in 1..Len(records) :
        /\ records[j].source_ip = << "evil.example.com" >>
        /\ r.raw_line = records[j].raw_line
        /\ r.source_ip = NoText

\* C8: insert_records called with no records returns 0, opens no connection
\* and issues no storage operation, and the store is as it was.
C8_EmptyBatchNoOp ==
    records = << >> =>
        /\ committed = store0
        /\ \A w \in Procs :
              /\ conn[w] = "none"
              /\ ops[w] = << >>
              /\ pending[w] = {}
              /\ pc[w] \in {"idle", "returned"}
              /\ \A n \in 1..Len(hist[w]) :
                    /\ hist[w][n].result = "returned"
                    /\ hist[w][n].ret = << 0 >>
                    /\ hist[w][n].after = hist[w][n].before

\* a call with no records has returned, the store holding rows
C8_Witness ==
    /\ records = << >>
    /\ store0 # {}
    /\ \E w \in Procs : pc[w] = "returned" /\ hist[w] # << >>

------------------------------------------------------------------------------
(* Properties of the parser *)

\* the lines in front of line n that parse_lastb_line turns into a record
RecordLines(n) ==
    {j \in 1..(n - 1) : parse_lastb_line(text[j]).kind = "record"}

\* C9: parse_lastb_line returns a record or the skip value for every line and
\* never raises; parse_lastb_output therefore goes through every line of the
\* text, and its result holds, in order, the record of every line that has
\* one, whatever lines came before it.
C9_ParserTotality ==
    /\ status # "raised"
    /\ \A j \in 1..Len(text) :
          parse_lastb_line(text[j]).kind \in {"record", "skip"}
    /\ i \in 1..(Len(text) + 1)
    /\ status = "done" => i = Len(text) + 1
    /\ Len(results) = Cardinality(RecordLines(i))
    /\ \A j \in RecordLines(i) :
          results[Cardinality({k \in RecordLines(i) : k <= j})] =
              parse_lastb_line(text[j])

\* a text was parsed whose first line matches the strict pattern with a
\* timestamp that is no date, and whose second line gave a record
C9_Witness ==
    /\ status = "done"
    /\ Len(text) = 2
    /\ Tier(text[1]) = "strict"
    /\ strptime(TimestampText(text[1].toks,
                              LASTB_LINE_RE(text[1]))) = ValueError
    /\ parse_lastb_line(text[1]) = Skip
    /\ Len(results) = 1
    /\ results[1].raw_line = text[2]

\* the line is empty or whitespace, starts with "btmp begins" or "wtmp
\* begins", or has reboot or shutdown, in any case, as its first token
InSkipSet(l) ==
    \/ Len(l.toks) = 0
    \/ /\ Len(l.toks) >= 2
       /\ ~l.lead
       /\ ~l.wide1
       /\ l.toks[1] \in {"btmp", "wtmp"}
       /\ l.toks[2] \in {"begins", "beginsx"}
    \/ /\ Len(l.toks) >= 1
       /\ Lower(l.toks[1]) \in {"reboot", "shutdown"}

\* C10: parse_lastb_line returns skip for every line that is empty or
\* whitespace, that starts with "btmp begins" or "wtmp begins", or whose
\* first token is reboot or shutdown in any case, in the strict and in the
\* lenient tier; no record has the username reboot or shutdown.
C10_SkipSetClosure ==
    lineResult # Pending =>
        /\ InSkipSet(line) => lineResult = Skip
        /\ lineResult.kind = "record" =>
              Lower(lineResult.username) \notin {"reboot", "shutdown"}

\* a Reboot line of the lenient tier with a timestamp that is a date, skipped
C10_Witness ==
    /\ lineResult = Skip
    /\ Len(line.toks) >= 1
    /\ line.toks[1] = "Reboot"
    /\ Tier(line) = "lenient"
    /\ SearchTimestamp(line.toks) > 1
    /\ strptime(TimestampText(line.toks, SearchTimestamp(line.toks)))
          # ValueError

\* the text in front of the first timestamp of a line, as its tokens
PrefixTokens(l) ==
    LET found == {p \in 1..Len(l.toks) : TIMESTAMP_PATTERN(l.toks, p, TRUE)}
        at == Min(found)
    IN  IF found = {} THEN << >>
        ELSE SubSeq(l.toks, 1, at - 1) \o
             (IF UllHead(l.toks[at]) # "" THEN << UllHead(l.toks[at]) >>
              ELSE << >>)

\* the source field of a line: in the strict tier what lies between the
\* terminal and the start timestamp, in the lenient tier the third token in
\* front of the timestamp
SourceField(l) ==
    LET r == RstripNewline(l)
        k == LASTB_LINE_RE(r)
    IN  IF k # 0 THEN SubSeq(r.toks, 3, k - 1)
        ELSE IF Len(PrefixTokens(r)) >= 3 THEN << PrefixTokens(r)[3] >>
        ELSE << >>

ProtocolOf(t) ==
    IF ContainsSsh(t) THEN "ssh"
    ELSE IF StartsTty(t) THEN "console"
    ELSE IF StartsPts(t) THEN "pts"
    ELSE "unknown"

\* C13: the protocol of every record is ssh if its terminal, in lower case,
\* contains "ssh", otherwise console if that starts with "tty", otherwise pts
\* if it starts with "pts", otherwise unknown.
C13_ProtocolOfLowerTerminal ==
    (lineResult # Pending /\ lineResult.kind = "record") =>
        /\ lineResult.protocol \in {"ssh", "console", "pts", "unknown"}
        /\ lineResult.protocol = ProtocolOf(Lower(lineResult.terminal))

\* a record with a terminal that starts with "tty" and contains "ssh", and
\* one with a terminal in upper case
C13_Witness ==
    /\ lineResult # Pending
    /\ lineResult.kind = "record"
    /\ \/ lineResult.terminal = "ttyssh" /\ lineResult.protocol = "ssh"
       \/ lineResult.terminal = "TTY1" /\ lineResult.protocol = "console"

\* C13 as stated: the tests are made on the terminal as it is written.
C13_ProtocolOfTerminal ==
    (lineResult # Pending /\ lineResult.kind = "record") =>
        lineResult.protocol = ProtocolOf(lineResult.terminal)

\* the records among a sequence of parse_lastb_line results, in their order
RECURSIVE KeepRecords(_)
KeepRecords(seq) ==
    IF seq = << >> THEN << >>
    ELSE IF Head(seq).kind = "record"
         THEN << Head(seq) >> \o KeepRecords(Tail(seq))
         ELSE KeepRecords(Tail(seq))

\* what parse_lastb_line gives for each line of a text
LineResults(t) == [j \in 1..Len(t) |-> parse_lastb_line(t[j])]

\* a blank line or a btmp / wtmp boundary marker
BlankOrMarker(l) == Len(l.toks) = 0 \/ StartsWithSkipPrefix(l)

\* C14: the result of parse_lastb_output is the sequence of the non-skip
\* results of parse_lastb_line for the lines of the text, in the order of the
\* lines, one record for each line not skipped; it is never longer than the
\* text, and it is empty for a text of no lines or of blank and boundary
\* marker lines only.
C14_OrderPreservingFilter ==
    /\ Len(results) <= i - 1
    /\ results = KeepRecords(LineResults(SubSeq(text, 1, i - 1)))
    /\ status = "done" =>
          /\ results = KeepRecords(LineResults(text))
          /\ parse_lastb_output(text) = results
          /\ Len(results) <= Len(text)
          /\ (\A j \in 1..Len(text) : BlankOrMarker(text[j]))
                => results = << >>

\* a text of two lines that gave two different records, in the lines' order
C14_Witness ==
    /\ status = "done"
    /\ Len(text) = 2
    /\ Len(results) = 2
    /\ results[1] # results[2]
    /\ results[1].raw_line = RstripNewline(text[1])
    /\ results[2].raw_line = RstripNewline(text[2])

\* the permutations of 1..n
Perms(n) == {p \in [1..n -> 1..n] : \A a, b \in 1..n : p[a] = p[b] => a = b}

\* how often a record occurs in a sequence
Occurrences(seq, r) == Cardinality({j \in 1..Len(seq) : seq[j] = r})

\* C15: for every permutation of the lines of a text, parse_lastb_output
\* gives the records of the lines as permuted: the same records, each as
\* often as for the text itself, in the order of the permuted lines.
C15_OrderIndependence ==
    status = "done" =>
        \A p \in Perms(Len(text)) :
            LET permuted == [j \in 1..Len(text) |-> text[p[j]]]
                out == parse_lastb_output(permuted)
            IN  /\ Len(out) = Len(results)
                /\ \A j \in 1..Len(results) :
                      Occurrences(out, results[j]) =
                          Occurrences(results, results[j])
                /\ out = KeepRecords([j \in 1..Len(text) |->
                                         parse_lastb_line(text[p[j]])])

\* a text of a record line in front of a line skipped for its timestamp
C15_Witness ==
    /\ status = "done"
    /\ Len(text) = 2
    /\ Len(results) = 1
    /\ results[1].raw_line = RstripNewline(text[1])
    /\ SearchTimestamp(text[2].toks) # 0
    /\ parse_lastb_line(text[2]) = Skip

------------------------------------------------------------------------------
(* Properties of main *)

Reported(msg) == \E p \in 1..Len(report) : report[p].msg = msg

\* C16: when a storage operation of insert_records fails, the call raises,
\* after the rollback if an insert or the commit failed, without returning a
\* count and without reporting "Inserted"; main then stops at the call: it
\* runs neither geolocation nor the view refresh and does not report
\* "Ingestion complete"; the count of parsed records is the report made
\* before the write is attempted; "Ingestion complete" carries the count
\* returned by a write that was committed.
C16_NoFalseInsertionCount ==
    /\ Failed("A") =>
          /\ ~Did("A", "log inserted")
          /\ pc["A"] # "returned"
          /\ pc["A"] = "raised" =>
                /\ hist["A"][1].result = "raised"
                /\ Did("A", "execute failed") \/ Did("A", "commit failed")
                      => Did("A", "rollback")
          /\ mpc \in {"insert", "raised"}
          /\ report = << Report("Parsed", Len(records)) >>
          /\ geo = {}
          /\ enriched = Pending
    /\ (ops["A"] # << >> \/ pc["A"] # "idle") =>
          /\ Len(report) >= 1
          /\ report[1] = Report("Parsed", Len(records))
          /\ Len(records) >= 1
    /\ Reported("Ingestion complete") =>
          /\ Did("A", "log inserted")
          /\ pc["A"] = "returned"
          /\ report[Len(report)] =
                Report("Ingestion complete", hist["A"][1].ret[1])

\* the commit failed after the parsed records were reported, and the
\* exception has left main
C16_Witness ==
    /\ mpc = "raised"
    /\ pc["A"] = "raised"
    /\ Did("A", "commit failed")
    /\ Did("A", "rollback")
    /\ report = << Report("Parsed", 2) >>

------------------------------------------------------------------------------
(* Properties of geolocate.py *)

PrivateRow(ip) ==
    [ip |-> ip, country_code |-> "XX", country |-> "Private",
     city |-> "Private Network", latitude |-> NoValue, longitude |-> NoValue,
     asn |-> NoValue]

\* the address is private, loopback, reserved or link-local
PrivateKind(t) ==
    /\ IpAddressAccepts(t)
    /\ IsPrivateAddr(t) \/ IsLoopbackAddr(t) \/ IsReservedAddr(t)
          \/ IsLinkLocalAddr(t)

\* C17: for an address that is private, loopback, reserved or link-local,
\* lookup_ip returns its input as ip with country_code XX, country Private
\* and city Private Network and makes no call of the reader, whatever the
\* reader is, None included; for a text that is no IP address is_private_ip
\* is False, and lookup_ip goes on to the reader.
C17_PrivateLookupShortCircuits ==
    lookupResult # Pending =>
        /\ PrivateKind(ip_str) =>
              /\ lookupResult = PrivateRow(ip_str)
              /\ readerCalls = 0
        /\ ~IpAddressAccepts(ip_str) =>
              /\ is_private_ip(ip_str) = FALSE
              /\ lookupResult.country # "Private"
              /\ readerCalls = 1

\* a private address was looked up with no reader
C17_Witness ==
    /\ lookupResult = PrivateRow("10.0.0.1")
    /\ ip_str = "10.0.0.1"
    /\ reader = "None"
    /\ readerCalls = 0

\* C18: after enrich_new_ips has returned, every private or reserved source
\* IP of the stored records has a geolocation row with country_code XX,
\* country Private and city Private Network.
C18_PrivateAddressesEnriched ==
    (enriched # Pending /\ enriched.kind = "returned") =>
        \A r \in committed :
            (r.source_ip # NoText /\ PrivateKind(r.source_ip[1]))
            => PrivateRow(r.source_ip[1]) \in geo

\* enrich_new_ips has stored the row of a private address whose lookup failed
C18_Witness ==
    /\ enriched = [kind |-> "returned", n |-> 1]
    /\ \E r \in committed : r.source_ip = << "10.0.0.1" >>
    /\ [EmptyResult("10.0.0.1") EXCEPT !.country_code = "XX",
                                       !.country = "Lookup Failed"] \in geo

------------------------------------------------------------------------------
(* Properties of the two tiers of parse_lastb_line *)

\* the line reaches the tiers: it is not blank and has no skip prefix
ReachesTiers(l) == Len(l.toks) > 0 /\ ~StartsWithSkipPrefix(l)

\* where the first substring of the timestamp pattern starts, 0 if nowhere
FirstTimestamp(l) ==
    LET found == {p \in 1..Len(l.toks) : TIMESTAMP_PATTERN(l.toks, p, TRUE)}
    IN  IF found = {} THEN 0 ELSE Min(found)

IsRecord(res) == res # Pending /\ res.kind = "record"

\* C19: a line the strict pattern matches is parsed by the strict tier alone:
\* its record has the groups of the pattern, the whole source group included.
\* A line the strict pattern does not match is parsed from the first substring
\* of the timestamp pattern and the tokens in front of it: the result is skip
\* when there is no such substring or no token in front of it, and a record
\* has the first token as username, the second as terminal or "unknown", the
\* third as source or none, and the time of that first substring.
C19_TwoTierOrderAndDefaults ==
    (lineResult # Pending /\ ReachesTiers(line)) =>
        LET r == RstripNewline(line)
            k == LASTB_LINE_RE(r)
            pre == PrefixTokens(r)
            at == FirstTimestamp(r)
        IN  /\ k # 0 =>
                  /\ lineResult = parse_strict(r, k)
                  /\ IsRecord(lineResult) =>
                        /\ lineResult.username = r.toks[1]
                        /\ lineResult.terminal = r.toks[2]
                        /\ lineResult.source_ip =
                              (IF k = 3 THEN NoText
                               ELSE SubSeq(r.toks, 3, k - 1))
            /\ k = 0 =>
                  /\ (at = 0 \/ pre = << >>) => lineResult = Skip
                  /\ IsRecord(lineResult) =>
                        /\ lineResult.username = pre[1]
                        /\ lineResult.terminal =
                              (IF Len(pre) >= 2 THEN pre[2] ELSE "unknown")
                        /\ lineResult.source_ip =
                              (IF Len(pre) >= 3 THEN << pre[3] >> ELSE NoText)
                        /\ lineResult.timestamp =
                              ReplaceTzUtc(strptime(TimestampText(r.toks, at)))

\* a record of the lenient tier that has the default terminal and no source
C19_Witness ==
    /\ IsRecord(lineResult)
    /\ LASTB_LINE_RE(RstripNewline(line)) = 0
    /\ Len(PrefixTokens(RstripNewline(line))) = 1
    /\ lineResult.terminal = "unknown"
    /\ lineResult.source_ip = NoText
    /\ lineResult.username = "root"

\* the timestamp text a tier extracts from a line: the group of the strict
\* pattern, or the first substring of the timestamp pattern
ExtractedTimestamp(l) ==
    LET r == RstripNewline(l)
        k == LASTB_LINE_RE(r)
        at == FirstTimestamp(r)
    IN  IF k # 0 THEN TimestampText(r.toks, k)
        ELSE IF at # 0 THEN TimestampText(r.toks, at)
        ELSE << >>

\* texts of the timestamp pattern that are no date under the format
BadStamps == {TBadDay, TBadName, TBadHour}

\* C20: in the strict tier and in the lenient tier alike, a line whose
\* extracted timestamp matches the timestamp pattern and is no date under the
\* format "%a %b %d %H:%M:%S %Y" gives skip, no record and no exception,
\* whatever its other fields are; the timestamp of every record is the
\* extracted one, tagged UTC.
C20_BadTimestampSkips ==
    (lineResult # Pending /\ ReachesTiers(line)) =>
        LET ts == ExtractedTimestamp(line)
        IN  /\ (ts # << >> /\ strptime(ts) = ValueError) => lineResult = Skip
            /\ ts \in BadStamps => lineResult = Skip
            /\ IsRecord(lineResult) =>
                  /\ lineResult.timestamp.tzinfo = "UTC"
                  /\ lineResult.timestamp = ReplaceTzUtc(strptime(ts))
                  /\ ts \notin BadStamps

\* a line of the lenient tier with a username and an hour 25 is skipped
C20_Witness ==
    /\ lineResult = Skip
    /\ LASTB_LINE_RE(RstripNewline(line)) = 0
    /\ ExtractedTimestamp(line) = TBadHour
    /\ PrefixTokens(RstripNewline(line)) = << "root" >>

\* the tokens have a substring of the timestamp pattern
HasTimestamp(toks) ==
    \E p \in 1..Len(toks) : TIMESTAMP_PATTERN(toks, p, TRUE)

\* C21: whenever the strict pattern matches a line, the start timestamp it
\* captures is the earliest substring of the timestamp pattern in the line,
\* and the source text it captures has no substring of the timestamp pattern.
C21_SourceKeepsOffTimestamp ==
    (lineResult # Pending /\ ReachesTiers(line)) =>
        LET r == RstripNewline(line)
            k == LASTB_LINE_RE(r)
        IN  k # 0 =>
                /\ k = FirstTimestamp(r)
                /\ ~HasTimestamp(SubSeq(r.toks, 3, k - 1))

\* a record of the strict tier whose source holds the first timestamp of the
\* line and whose time is that of the second
C21_Witness ==
    /\ IsRecord(lineResult)
    /\ LASTB_LINE_RE(RstripNewline(line)) = 9
    /\ lineResult.source_ip = << "10.0.0.1" >> \o T1
    /\ lineResult.timestamp = ReplaceTzUtc(strptime(T2))
    /\ FirstTimestamp(RstripNewline(line)) = 4

------------------------------------------------------------------------------
(* Properties of the transaction of insert_records *)

\* how often the current call of process w has made the operation op
Times(w, op) == Cardinality({p \in 1..Len(ops[w]) : ops[w][p] = op})

Ended(w) == pc[w] \in {"returned", "raised"}

\* C22: a call of insert_records that got a connection opens one connection
\* only and issues every insert on it while it is open, before the end of
\* the transaction; the rows it inserts are not committed before its commit
\* (autocommit is off); when it has ended it has made exactly one of a
\* commit and a rollback, the commit exactly when it returned, and its last
\* operation was to close the connection, also when an insert or the commit
\* raised.
C22_SingleTransactionScope ==
    \A w \in Procs :
        Did(w, "connect") =>
            /\ ops[w][1] = "connect"
            /\ Times(w, "connect") = 1
            /\ \A p \in 1..Len(ops[w]) :
                  ops[w][p] \in {"execute", "execute failed"} =>
                      \A q \in 1..(p - 1) :
                          ops[w][q] \in {"connect", "execute"}
            /\ Times(w, "commit") + Times(w, "rollback") <= 1
            /\ Times(w, "close") <= 1
            /\ InCall(w) =>
                  /\ conn[w] = "open"
                  /\ ~Did(w, "close")
            /\ pc[w] \in {"loop", "commit", "except"} =>
                  /\ pending[w] \cap committed = {}
                  /\ ~Did(w, "commit")
                  /\ ~Did(w, "rollback")
            /\ Ended(w) =>
                  /\ Times(w, "commit") + Times(w, "rollback") = 1
                  /\ Did(w, "commit") <=> pc[w] = "returned"
                  /\ Did(w, "rollback") <=> Failed(w)
                  /\ ops[w][Len(ops[w])] = "close"
                  /\ Times(w, "close") = 1
                  /\ conn[w] = "closed"
                  /\ pending[w] = {}

\* a call whose second insert raised has rolled back and closed
C22_Witness ==
    \E w \in Procs :
        /\ pc[w] = "raised"
        /\ ops[w] = << "connect", "execute", "execute failed", "rollback",
                       "close" >>
        /\ conn[w] = "closed"

\* C23: within a call of insert_records the insert of each record is issued
\* at most once, in the order of the batch; at most one storage operation
\* fails, and after it the call issues no insert and no commit and opens no
\* connection: it rolls back, closes and raises.
C23_NoAutomaticRetry ==
    \A w \in Procs :
        /\ Times(w, "execute") + Times(w, "execute failed") <= Len(records)
        /\ pc[w] = "loop" => idx[w] = Times(w, "execute") + 1
        /\ Times(w, "connect failed") + Times(w, "execute failed")
              + Times(w, "commit failed") <= 1
        /\ Times(w, "commit") + Times(w, "commit failed") <= 1
        /\ \A p \in 1..Len(ops[w]) :
              ops[w][p] \in {"connect failed", "execute failed",
                             "commit failed"} =>
                  \A q \in (p + 1)..Len(ops[w]) :
                      ops[w][q] \in {"rollback", "close"}
        /\ (Failed(w) /\ Ended(w)) =>
              /\ pc[w] = "raised"
              /\ hist[w][Len(hist[w])].result = "raised"

\* a call whose commit failed after two inserts has raised
C23_Witness ==
    \E w \in Procs :
        /\ pc[w] = "raised"
        /\ ops[w] = << "connect", "execute", "execute", "commit failed",
                       "rollback", "close" >>
        /\ hist[w][Len(hist[w])].result = "raised"

\* C24: a call of insert_records changes and deletes no row the store holds:
\* the rows committed at the start stay committed, and so do the rows
\* committed when a call began; the row the store holds for a natural key
\* is the one first written, with its terminal, protocol and raw_line, when
\* a later record has the same key; such a record raises no error, the call
\* that met no failing operation returns.
C24_ConflictLeavesRowsUntouched ==
    /\ store0 \subseteq committed
    /\ \A r0 \in store0 : \A r \in committed :
          KeyOf(r) = KeyOf(r0) => r = r0
    /\ \A w \in Procs :
          /\ InCall(w) => before[w] \subseteq committed
          /\ \A n \in 1..Len(hist[w]) :
                /\ hist[w][n].before \subseteq hist[w][n].after
                /\ \A r0 \in hist[w][n].before : \A r \in hist[w][n].after :
                      KeyOf(r) = KeyOf(r0) => r = r0
          /\ (Ended(w) /\ ~Failed(w)) => pc[w] = "returned"

\* a call wrote a record whose key the store held under another terminal: it
\* returned 0 and the stored row is the earlier one
C24_Witness ==
    \E w \in Procs : \E n \in AloneReturned(w) :
        /\ Len(records) = 1
        /\ \E r0 \in hist[w][n].before :
              /\ KeyOf(r0) = KeyOf(RowOf(records[1]))
              /\ r0.terminal # RowOf(records[1]).terminal
              /\ r0.raw_line # RowOf(records[1]).raw_line
              /\ r0 \in hist[w][n].after
        /\ hist[w][n].ret = << 0 >>
        /\ hist[w][n].after = hist[w][n].before

------------------------------------------------------------------------------
(* Properties of the order of main *)

\* where the report first has the message, 0 if nowhere
FirstReport(msg) ==
    LET at == {p \in 1..Len(report) : report[p].msg = msg}
    IN  IF at = {} THEN 0 ELSE Min(at)

\* the storage was not touched: no connection, no row, no geolocation
StorageUntouched ==
    /\ pc["A"] = "idle"
    /\ ops["A"] = << >>
    /\ committed = store0
    /\ geo = {}
    /\ enriched = Pending
    /\ ~Reported("run_geolocation")
    /\ ~Reported("refresh_views")

\* insert_records has returned a count to main
InsertReturned == pc["A"] = "returned" /\ mpc # "insert"

MainOrdering ==
    /\ (IsBlankOutput(text) \/ parse_lastb_output(text) = << >>) =>
          StorageUntouched
    /\ mpc = "start" => StorageUntouched
    /\ Reported("run_geolocation") =>
          /\ pc["A"] = "returned"
          /\ hist["A"][1].ret[1] > 0
    /\ enriched # Pending => Reported("run_geolocation")
    /\ Reported("refresh_views") =>
          /\ pc["A"] = "returned"
          /\ hist["A"][1].ret[1] > 0 =>
                /\ Reported("run_geolocation")
                /\ FirstReport("run_geolocation") < FirstReport("refresh_views")
    /\ (InsertReturned /\ mpc \in {"complete", "done", "raised"}) =>
          Reported("refresh_views")
    /\ (InsertReturned /\ mpc = "done") =>
          /\ report[Len(report)].msg = "Ingestion complete"
          /\ Reported("Materialized views refreshed")
                \/ Reported("Could not refresh materialized views")

\* C25: the storage is not touched when the raw text is blank or has no
\* record; geolocation runs only after insert_records returned a count above
\* 0; the view refresh is called after every insert_records that returned,
\* with a count of 0 too, and after a geolocation that failed, for
\* run_geolocation lets no exception out; a refresh statement that fails is
\* caught and main completes; only the connection of refresh_views, opened
\* outside its try, can fail main after the write, and then the refresh was
\* called and no "Ingestion complete" is reported.
C25_PipelineOrdering ==
    /\ MainOrdering
    /\ mpc = "geolocate" => enriched = Pending
    /\ (mpc = "raised" /\ ~Failed("A")) =>
          /\ InsertReturned
          /\ report[Len(report)] = Report("refresh_views", 0)
          /\ ~Reported("Ingestion complete")

\* geolocation failed on the missing GeoLite2 file after a write of new
\* records; the views were refreshed and main completed
C25_Witness ==
    /\ mpc = "done"
    /\ enriched = [kind |-> "raise", exc |-> "FileNotFoundError"]
    /\ hist["A"][1].ret[1] > 0
    /\ FirstReport("run_geolocation") = 2
    /\ FirstReport("refresh_views") = 3
    /\ report[Len(report)].msg = "Ingestion complete"

\* C25 as stated: refresh_views catches its own errors as run_geolocation
\* does, so that main completes after every insert_records that returned.
C25_MainCompletesAfterInsert ==
    /\ MainOrdering
    /\ InsertReturned => mpc # "raised"

====
